---- MODULE Spec2Model ----
(***************************************************************************)
(* Model of DirettaMonitor (src/diretta_calc.py): the log-based stability  *)
(* analysis.  One DirettaMonitor object is constructed and its             *)
(* analyze_recent_logs method is run, possibly several times, against the  *)
(* journal and the configuration file as they are at call time (Spec,      *)
(* FairSpec).                                                              *)
(*                                                                         *)
(* The methods parse_diretta_logs and analyze_stability are also called on *)
(* their own, on a text or a list drawn in the initial state (ParserSpec,  *)
(* StabilitySpec), and a DirettaCalculator is constructed for an MTU and   *)
(* its calculate_frame_params and calculate_cycle_time_for_48k are called  *)
(* (CalcSpec).                                                             *)
(*                                                                         *)
(* Numbers.  Python floats are modelled by exact rationals:                *)
(*   - a cy= field is an integer number of picoseconds, here always a      *)
(*     multiple of 1000000, so that cy_ps / 1_000_000 is an integer number *)
(*     of microseconds;                                                    *)
(*   - a decimal field d.dddd is the integer d.dddd * 10000;               *)
(*   - a mean is kept as the pair sum / count, a percentile as 100 times   *)
(*     its value (np.percentile interpolates at (n-1)*q/100), a standard   *)
(*     deviation as count^2 times the variance;                            *)
(*   - the reference cycle time is a fraction [n, d], d = 0 standing for   *)
(*     None;                                                               *)
(*   - bytes_per_sample, cycle_time_us and packet_rate_hz of the           *)
(*     calculator are fractions [n, d] in lowest terms.                    *)
(* Comparisons with the thresholds are made by cross-multiplication, so no *)
(* rounding takes place.                                                   *)
(***************************************************************************)
EXTENDS Integers, Sequences, FiniteSets, TLC

(***************************************************************************)
(* Bounds of the model.                                                    *)
(***************************************************************************)
\* the largest number of lines journalctl is asked for (num_lines)
MaxLines == 12
\* the largest number of sample lines in a text that starts with another line
MaxAfterJunk == 1

(***************************************************************************)
(* Small arithmetic helpers.                                               *)
(***************************************************************************)
Abs(x) == IF x < 0 THEN -x ELSE x

RECURSIVE Gcd(_, _)
Gcd(a, b) == IF b = 0 THEN a ELSE Gcd(b, a % b)

\* None, as the value of cycle_time_us
NoneVal == [n |-> 0, d |-> 0]

\* the float n/d, d > 0, in lowest terms
Frac(n, d) ==
    LET g == Gcd(Abs(n), d) IN [n |-> n \div g, d |-> d \div g]

IsNone(x) == x.d = 0

\* Python truthiness of cycle_time_us: None and 0.0 are false
Truthy(x) == x.d # 0 /\ x.n # 0

RECURSIVE SumSeq(_)
SumSeq(s) == IF s = << >> THEN 0 ELSE Head(s) + SumSeq(Tail(s))

RECURSIVE SumSq(_)
SumSq(s) == IF s = << >> THEN 0 ELSE Head(s) * Head(s) + SumSq(Tail(s))

(***************************************************************************)
(* Log text.  A text is a sequence of lines, a line a sequence of tokens   *)
(* separated by blanks.  The pattern of parse_diretta_logs separates its   *)
(* fields by \s+, which also matches a line break, and re.finditer scans   *)
(* the whole text, so the extractor works on the token stream.             *)
(***************************************************************************)
Tok(k, v) == [k |-> k, v |-> v]

\* "info rcv 2 <diff> <avg> <corr> cy=<cy_ps>"
SampleLine(s) ==
    << Tok("info", 0), Tok("rcv", 0), Tok("int", 2),
       Tok("dec", s.diff), Tok("dec", s.avg), Tok("dec", s.corr),
       Tok("cy", s.cy) >>

\* a line of the journal that is not a sample, e.g. "-- No entries --"
JunkLine == << Tok("junk", 0) >>

RECURSIVE Flatten(_)
Flatten(text) ==
    IF text = << >> THEN << >> ELSE Head(text) \o Flatten(Tail(text))

\* the token kinds each field of the pattern accepts, in order.  The pattern
\* is not anchored: "info" stands for any token that ends with the marker,
\* and the last field is matched by "cy=<digits>" ("cy") as well as by
\* "cy=<digits>" followed by other characters ("cyx"), of which only the
\* leading digits are captured.  The fields in between lie between two \s+
\* and must match as a whole.
PatternKinds ==
    << { "info" }, { "rcv" }, { "int" }, { "dec" }, { "dec" }, { "dec" },
       { "cy", "cyx" } >>

\* does the pattern match the token stream at position i
MatchAt(toks, i) ==
    /\ i + Len(PatternKinds) - 1 <= Len(toks)
    /\ \A j \in 1..Len(PatternKinds) : toks[i + j - 1].k \in PatternKinds[j]

\* float(match.group(g)): the conversion succeeds on a decimal and on a run
\* of digits, and raises ValueError on anything else
FloatRaises(tok) == tok.k \notin { "dec", "cy", "cyx" }

\* cy_ps / 1_000_000 : picoseconds to microseconds
PsToUs(cy_ps) == cy_ps \div 1000000

EmptyParsed ==
    [buffer_diff |-> << >>, buffer_avg |-> << >>,
     correction |-> << >>, cycle_times |-> << >>]

\* re.finditer: the positions of the leftmost, non-overlapping matches
RECURSIVE MatchPositions(_, _)
MatchPositions(toks, i) ==
    IF i > Len(toks) THEN << >>
    ELSE IF MatchAt(toks, i)
         THEN << i >> \o MatchPositions(toks, i + Len(PatternKinds))
         ELSE MatchPositions(toks, i + 1)

\* the loop as it would be with insert(0, ...) in place of append
SamplesAtPrepended(toks, at) ==
    LET n == Len(at) IN
    [buffer_diff |-> [m \in 1..n |-> toks[at[n + 1 - m] + 3].v],
     buffer_avg  |-> [m \in 1..n |-> toks[at[n + 1 - m] + 4].v],
     correction  |-> [m \in 1..n |-> toks[at[n + 1 - m] + 5].v],
     cycle_times |-> [m \in 1..n |-> PsToUs(toks[at[n + 1 - m] + 6].v)]]

\* the loop over the matches: the groups 1 to 4 of each match are converted,
\* and only then appended to the four lists; a match with a conversion that
\* raises is passed over ("except (ValueError, IndexError): continue")
SamplesAt(toks, at) ==
    LET kept == SelectSeq(at, LAMBDA p :
                    \A g \in 1..4 : ~FloatRaises(toks[p + 2 + g]))
    IN  [buffer_diff |-> [m \in 1..Len(kept) |-> toks[kept[m] + 3].v],
         buffer_avg  |-> [m \in 1..Len(kept) |-> toks[kept[m] + 4].v],
         correction  |-> [m \in 1..Len(kept) |-> toks[kept[m] + 5].v],
         cycle_times |-> [m \in 1..Len(kept) |-> PsToUs(toks[kept[m] + 6].v)]]

parse_diretta_logs(logs) ==
    CHOOSE parsed \in
        UNION { { SamplesAt(toks, at) : at \in { MatchPositions(toks, 1) } } :
                toks \in { Flatten(logs) } } : TRUE

\* "not parsed_data": a dict is false when it has no key
DictIsFalse(dict) == DOMAIN dict = {}

(***************************************************************************)
(* Statistics engine.                                                      *)
(***************************************************************************)
SortedOf(values) == SortSeq(values, LAMBDA a, b : a < b)

\* a percentile without interpolation: the order statistic at or below the
\* position
PercentileLower100(values, q) ==
    100 * SortedOf(values)[((Len(values) - 1) * q) \div 100 + 1]

\* 100 * np.percentile(values, q): linear interpolation between the two
\* order statistics that bracket the position (n - 1) * q / 100
Percentile100(values, q) ==
    LET s   == SortedOf(values)
        pos == (Len(s) - 1) * q
        lo  == pos \div 100
        r   == pos % 100
    IN  IF r = 0 THEN 100 * s[lo + 1]
        ELSE 100 * s[lo + 1] + r * (s[lo + 2] - s[lo + 1])

SeqMin(values) == SortedOf(values)[1]
SeqMax(values) == SortedOf(values)[Len(values)]

\* the statistics as they would be with "if count < 1" as the guard
analyze_stabilityFromOne(values) ==
    LET count == Len(values) IN
    IF count < 1
    THEN [count |-> count, sum |-> 0, den |-> 1, var2 |-> 0,
          min |-> 0, max |-> 0, range |-> 0, q1 |-> 0, q3 |-> 0, iqr |-> 0]
    ELSE [count |-> count,
          sum   |-> SumSeq(values),
          den   |-> count,
          var2  |-> count * SumSq(values) - SumSeq(values) * SumSeq(values),
          min   |-> SeqMin(values),
          max   |-> SeqMax(values),
          range |-> SeqMax(values) - SeqMin(values),
          q1    |-> Percentile100(values, 25),
          q3    |-> Percentile100(values, 75),
          iqr   |-> Percentile100(values, 75) - Percentile100(values, 25)]

\* the fields of the result: count; mean = sum / den; stdev^2 = var2 / den^2;
\* min, max, range; q1, q3, iqr as 100 times their value
analyze_stability(values) ==
    LET count == Len(values) IN
    IF count < 2
    THEN [count |-> count, sum |-> 0, den |-> 1, var2 |-> 0,
          min |-> 0, max |-> 0, range |-> 0, q1 |-> 0, q3 |-> 0, iqr |-> 0]
    ELSE [count |-> count,
          sum   |-> SumSeq(values),
          den   |-> count,
          var2  |-> count * SumSq(values) - SumSeq(values) * SumSeq(values),
          min   |-> SeqMin(values),
          max   |-> SeqMax(values),
          range |-> SeqMax(values) - SeqMin(values),
          q1    |-> Percentile100(values, 25),
          q3    |-> Percentile100(values, 75),
          iqr   |-> Percentile100(values, 75) - Percentile100(values, 25)]

\* np.mean(cycle_times)
MeanOf(values) == Frac(SumSeq(values), Len(values))

(***************************************************************************)
(* Quality classifier.                                                     *)
(***************************************************************************)
\* (x / ref) * 100 < t10 / 10, for x given as x100 = 100 * x; a division by
\* numpy's 0.0 gives inf or nan, which are below nothing
PctLt(x100, ref, t10) ==
    IF ref.n > 0 THEN 10 * x100 * ref.d < t10 * ref.n
    ELSE IF ref.n < 0 THEN 10 * x100 * ref.d > t10 * ref.n
    ELSE FALSE

\* the chain as it would be if it graded the peak-to-peak percentage
JitterGradeByRange(stats, ref) ==
    IF PctLt(100 * stats.range, ref, 1) THEN "Exceptional"
    ELSE IF PctLt(100 * stats.range, ref, 5) THEN "Excellent"
    ELSE IF PctLt(100 * stats.range, ref, 10) THEN "Very Good"
    ELSE IF PctLt(100 * stats.range, ref, 20) THEN "Good"
    ELSE IF PctLt(100 * stats.range, ref, 50) THEN "Fair"
    ELSE "Poor"

\* the if/elif chain on iqr_pct
JitterGrade(stats, ref) ==
    IF PctLt(stats.iqr, ref, 1) THEN "Exceptional"
    ELSE IF PctLt(stats.iqr, ref, 5) THEN "Excellent"
    ELSE IF PctLt(stats.iqr, ref, 10) THEN "Very Good"
    ELSE IF PctLt(stats.iqr, ref, 20) THEN "Good"
    ELSE IF PctLt(stats.iqr, ref, 50) THEN "Fair"
    ELSE "Poor"

\* correction_stats['iqr'] < t, t given in units of 0.0001
IqrLt(stats, t) == stats.iqr < 100 * t

\* abs(correction_stats['mean']) < t, t given in units of 0.0001
AbsMeanLt(stats, t) == Abs(stats.sum) < t * stats.den

\* abs_mean_correction > t, t given in units of 0.0001
AbsMeanGt(stats, t) == Abs(stats.sum) > t * stats.den

\* the chain as it would be if it left the mean out
BufferGradeIqrOnly(stats) ==
    IF IqrLt(stats, 10) THEN "Exceptional"
    ELSE IF IqrLt(stats, 50) THEN "Excellent"
    ELSE IF IqrLt(stats, 100) THEN "Good"
    ELSE IF IqrLt(stats, 200) THEN "Fair"
    ELSE "Poor"

\* the if/elif chain on the correction statistics
BufferGrade(stats) ==
    IF IqrLt(stats, 10) /\ AbsMeanLt(stats, 50)
    THEN "Exceptional"
    ELSE IF IqrLt(stats, 50) /\ AbsMeanLt(stats, 100)
    THEN "Excellent"
    ELSE IF IqrLt(stats, 100) /\ AbsMeanLt(stats, 200)
    THEN "Good"
    ELSE IF IqrLt(stats, 200)
    THEN "Fair"
    ELSE "Poor"

\* the interpretation guide printed at the top of every report
GuideBufferGrade(stats) ==
    IF IqrLt(stats, 50) THEN "Exceptional"
    ELSE IF IqrLt(stats, 100) THEN "Excellent"
    ELSE IF IqrLt(stats, 200) THEN "Good"
    ELSE "Poor"

\* "correction and len(correction) >= 10"
EnoughCorrections(correction) == correction # << >> /\ Len(correction) >= 10

\* the notes under INTERPRETATION
MeanNote(stats) ==
    IF AbsMeanGt(stats, 150)
    THEN IF stats.sum > 0 THEN << "NOTE_FILLING" >>
                                     ELSE << "NOTE_DRAINING" >>
    ELSE << "NOTE_BALANCED" >>

IqrNote(stats) ==
    IF IqrLt(stats, 50) THEN << "NOTE_LOW_IQR" >>
    ELSE IF stats.iqr > 100 * 200 THEN << "NOTE_HIGH_IQR" >>
    ELSE << >>

(***************************************************************************)
(* Inputs: what the callers pass and what the environment holds.           *)
(***************************************************************************)
\* the services main() builds a monitor for
ServiceNames == { "diretta_sync_host", "diretta_memoryplay_host" }

\* --cycle-time: absent, 0 or a cycle time in microseconds
ExplicitCycleTimes == { NoneVal, Frac(0, 1), Frac(1920, 1) }

\* what _detect_cycle_time finds: no CycleTime= line, CycleTime=0, CycleTime=1000
ConfigCycleTimes == { NoneVal, Frac(0, 1), Frac(1000, 1) }

\* the values of num_lines
NumLinesChoices == { 1, MaxLines }

\* the samples the journal lines are made of: cy in picoseconds, the three
\* decimal fields in units of 0.0001
Sample(diff, avg, corr, cy_us) ==
    [diff |-> diff, avg |-> avg, corr |-> corr, cy |-> cy_us * 1000000]

SampleKinds ==
    << Sample(0, 0, 0, 0),
       Sample(-110, -110, 16, 1920),
       Sample(90, -100, 24, 1921),
       Sample(-30, -60, 56, 1925),
       Sample(120, 10, 96, 1935),
       Sample(400, 300, 250, 2000),
       Sample(-400, -300, -250, 1950) >>

\* n sample lines that alternate between the kinds a and b
RECURSIVE Alternate(_, _, _)
Alternate(a, b, n) ==
    IF n = 0 THEN << >>
    ELSE << SampleLine(SampleKinds[a]) >> \o Alternate(b, a, n - 1)

\* the pairs of sample kinds a text alternates between
KindPairs ==
    { x \in (1..Len(SampleKinds)) \X (1..Len(SampleKinds)) :
        x[1] = x[2] \/ (x[1] < x[2] /\ 2 \in { x[1], x[2] }) }

\* the texts journalctl can print: sample lines, after a line that is not a
\* sample in the shorter texts
AllJournalTexts ==
    UNION { { junk \o Alternate(ab[1], ab[2], n) :
                ab \in KindPairs,
                n \in 0..(IF junk = << >> THEN MaxLines ELSE MaxAfterJunk) } :
            junk \in { << >>, << JunkLine >> } }

JournalTexts(limit) == { t \in AllJournalTexts : Len(t) <= limit }

\* the result of subprocess.check_output: CalledProcessError or the output
JournalResults(limit) ==
    { [ok |-> FALSE, text |-> << >>] } \cup
    { [ok |-> TRUE, text |-> t] : t \in JournalTexts(limit) }

(***************************************************************************)
(* State.                                                                  *)
(***************************************************************************)
VARIABLES
    service_name,     \* self.service_name
    cycle_time_us,    \* self.cycle_time_us
    ctor_cycle,       \* the cycle_time_us argument the monitor was built with
    pc,               \* position in analyze_recent_logs; "idle" between runs
    num_lines,        \* the argument of the run
    config,           \* what _detect_cycle_time returned, if it was called
    journal,          \* what journalctl answered, once it was called
    logs,             \* local: the retrieved text
    parsed_data,      \* local: the result of parse_diretta_logs
    cycle_stats,      \* local: statistics of the cycle times
    correction_stats, \* local: statistics of the corrections
    ran,              \* the collaborators and stages this run has called
    report,           \* local: the report lines appended so far
    mtu,              \* DirettaCalculator: self.mtu
    overhead,         \* DirettaCalculator: self.overhead
    available_payload,\* DirettaCalculator: self.available_payload
    call,             \* the method called directly last, with its arguments
    result            \* what that call returned or raised

\* the calculator and the direct calls, which a run of the monitor leaves alone
direct_vars == << mtu, overhead, available_payload, call, result >>

vars == << service_name, cycle_time_us, ctor_cycle, pc, num_lines, config,
           journal, logs, parsed_data, cycle_stats, correction_stats, ran,
           report, mtu, overhead, available_payload, call, result >>

\* no method has been called directly
NoCall == [op |-> "none"]

\* a report line: what it is and, for an assessment, the grade it prints
Line(tag) == [tag |-> tag, grade |-> ""]
Assessment(tag, grade) == [tag |-> tag, grade |-> grade]

NoStats == analyze_stability(<< >>)

HasLine(tag) == \E i \in 1..Len(report) : report[i].tag = tag

LastLine == report[Len(report)]

GradeOf(tag) ==
    report[CHOOSE i \in 1..Len(report) : report[i].tag = tag].grade

(***************************************************************************)
(* DirettaMonitor.__init__                                                 *)
(***************************************************************************)
Init ==
    /\ service_name \in ServiceNames
    /\ cycle_time_us \in ExplicitCycleTimes
    /\ ctor_cycle = cycle_time_us
    /\ pc = "idle"
    /\ num_lines = 0
    /\ config = NoneVal
    /\ journal = [ok |-> FALSE, text |-> << >>]
    /\ logs = << >>
    /\ parsed_data = EmptyParsed
    /\ cycle_stats = NoStats
    /\ correction_stats = NoStats
    /\ ran = {}
    /\ report = << >>
    /\ mtu = 0
    /\ overhead = 0
    /\ available_payload = 0
    /\ call = NoCall
    /\ result = NoCall

(***************************************************************************)
(* DirettaMonitor.analyze_recent_logs, stage by stage.                     *)
(***************************************************************************)
\* the call: the guide and the title are written
Call(n) ==
    /\ pc \in { "idle", "done" }
    /\ num_lines' = n
    /\ config' = NoneVal
    /\ journal' = [ok |-> FALSE, text |-> << >>]
    /\ logs' = << >>
    /\ parsed_data' = EmptyParsed
    /\ cycle_stats' = NoStats
    /\ correction_stats' = NoStats
    /\ ran' = {}
    /\ report' = << Line("GUIDE"), Line("TITLE") >>
    /\ pc' = "resolve"
    /\ UNCHANGED direct_vars
    /\ UNCHANGED << service_name, cycle_time_us, ctor_cycle >>

\* "Try to detect cycle time from config if not provided"; found is what
\* _detect_cycle_time returns for the configuration files as they are
ResolveWith(found) ==
    /\ LET resolved == IF IsNone(cycle_time_us) THEN found ELSE cycle_time_us
       IN  /\ cycle_time_us' = resolved
           /\ config' = IF IsNone(cycle_time_us) THEN found ELSE NoneVal
           /\ ran' = IF IsNone(cycle_time_us) THEN ran \cup { "_detect_cycle_time" }
                                              ELSE ran
           /\ report' = report \o
                 << IF Truthy(resolved) THEN Line("EXPECTED_FROM_CONFIGURATION")
                                        ELSE Line("EXPECTED_FROM_LOGS"),
                    Line("ANALYZING") >>
    /\ pc' = "retrieve"
    /\ UNCHANGED direct_vars
    /\ UNCHANGED << service_name, ctor_cycle, num_lines, journal, logs,
                    parsed_data, cycle_stats, correction_stats >>

Resolve ==
    /\ pc = "resolve"
    /\ \E found \in ConfigCycleTimes : ResolveWith(found)

\* an except clause that names another exception
RetrievalCaughtOther(exception) == exception = "FileNotFoundError"

\* "except subprocess.CalledProcessError"
RetrievalCaught(exception) == exception = "CalledProcessError"

\* the stage as it would be without "if not logs: ... return"
RetrieveWithoutReturn(jr) ==
    /\ journal' = jr
    /\ logs' = (IF jr.ok THEN jr.text ELSE << >>)
    /\ report' = Append(report, Line("LOGS_CAPTURED"))
    /\ pc' = "parse"
    /\ ran' = ran \cup { "journalctl" }
    /\ UNCHANGED direct_vars
    /\ UNCHANGED << service_name, cycle_time_us, ctor_cycle, num_lines, config,
                    parsed_data, cycle_stats, correction_stats >>

\* journalctl; CalledProcessError gives "", and no text ends the run
RetrieveWith(jr) ==
    /\ journal' = jr
    /\ IF ~jr.ok /\ ~RetrievalCaught("CalledProcessError")
       THEN /\ pc' = "raised"
            /\ UNCHANGED << logs, report >>
       ELSE LET text == IF jr.ok THEN jr.text ELSE << >>
            IN  /\ logs' = text
                /\ IF text = << >>
                   THEN /\ report' = Append(report, Line("NO_LOGS"))
                        /\ pc' = "done"
                   ELSE /\ report' = Append(report, Line("LOGS_CAPTURED"))
                        /\ pc' = "parse"
    /\ ran' = ran \cup { "journalctl" }
    /\ UNCHANGED direct_vars
    /\ UNCHANGED << service_name, cycle_time_us, ctor_cycle, num_lines, config,
                    parsed_data, cycle_stats, correction_stats >>

Retrieve ==
    /\ pc = "retrieve"
    /\ \E jr \in JournalResults(num_lines) : RetrieveWith(jr)

\* parse_diretta_logs and the test "if not parsed_data"
Parse ==
    /\ pc = "parse"
    /\ \E parsed \in { parse_diretta_logs(logs) } :
           /\ parsed_data' = parsed
           /\ IF DictIsFalse(parsed)
              THEN /\ report' = Append(report, Line("COULD_NOT_PARSE"))
                   /\ pc' = "done"
              ELSE /\ report' = Append(report, Line("PARSED"))
                   /\ pc' = "infer"
    /\ ran' = ran \cup { "parse_diretta_logs" }
    /\ UNCHANGED direct_vars
    /\ UNCHANGED << service_name, cycle_time_us, ctor_cycle, num_lines, config,
                    journal, logs, cycle_stats, correction_stats >>

\* "Auto-detect cycle time if not set"
Infer ==
    /\ pc = "infer"
    /\ IF ~Truthy(cycle_time_us) /\ parsed_data.cycle_times # << >>
       THEN /\ cycle_time_us' = MeanOf(parsed_data.cycle_times)
            /\ report' = Append(report, Line("DETECTED_FROM_LOG_DATA"))
       ELSE UNCHANGED << cycle_time_us, report >>
    /\ pc' = "jitter"
    /\ UNCHANGED direct_vars
    /\ UNCHANGED << service_name, ctor_cycle, num_lines, config, journal, logs,
                    parsed_data, cycle_stats, correction_stats, ran >>

\* "if self.cycle_time_us:" before the percentages are computed
JitterGuard(ref) == Truthy(ref)

\* x / self.cycle_time_us raises TypeError for None; a zero that gets here
\* is the np.float64 that np.mean returned, and numpy divides by it
DivisionRaises(ref) == IsNone(ref)

\* "1. Analyze Cycle Time (Network Jitter)"
Jitter ==
    /\ pc = "jitter"
    /\ IF parsed_data.cycle_times # << >>
       THEN \E stats \in { analyze_stability(parsed_data.cycle_times) } :
                /\ cycle_stats' = stats
                /\ IF JitterGuard(cycle_time_us)
                   THEN IF DivisionRaises(cycle_time_us)
                        THEN /\ pc' = "raised"
                             /\ UNCHANGED << report, ran >>
                        ELSE /\ report' = report \o
                                   << Line("JITTER_SECTION"),
                                      Assessment("JITTER_ASSESSMENT",
                                                 JitterGrade(stats, cycle_time_us)),
                                      Line("JITTER_STATISTICS"),
                                      Line("RULE"), Line("BLANK") >>
                             /\ ran' = ran \cup { "analyze_stability(cycle_times)",
                                                  "jitter_grade" }
                             /\ pc' = "buffer"
                   ELSE /\ report' = report \o << Line("RULE"), Line("BLANK") >>
                        /\ ran' = ran \cup { "analyze_stability(cycle_times)" }
                        /\ pc' = "buffer"
       ELSE /\ report' = report \o << Line("JITTER_NO_DATA"), Line("BLANK") >>
            /\ pc' = "buffer"
            /\ UNCHANGED << cycle_stats, ran >>
    /\ UNCHANGED direct_vars
    /\ UNCHANGED << service_name, cycle_time_us, ctor_cycle, num_lines, config,
                    journal, logs, parsed_data, correction_stats >>

\* "2. Analyze Buffer Management (Correction Values)" and the return
Buffer ==
    /\ pc = "buffer"
    /\ IF EnoughCorrections(parsed_data.correction)
       THEN \E stats \in { analyze_stability(parsed_data.correction) } :
                /\ correction_stats' = stats
                /\ report' = report \o
                      << Line("BUFFER_SECTION"),
                         Assessment("BUFFER_ASSESSMENT", BufferGrade(stats)),
                         Line("BUFFER_STATISTICS") >> \o
                      [i \in 1..Len(MeanNote(stats)) |-> Line(MeanNote(stats)[i])] \o
                      [i \in 1..Len(IqrNote(stats)) |-> Line(IqrNote(stats)[i])] \o
                      (IF parsed_data.buffer_diff # << >>
                       THEN << Line("BUFFER_DIFFERENCE") >> ELSE << >>) \o
                      << Line("END") >>
                /\ ran' = ran \cup
                      { "analyze_stability(correction)", "buffer_grade" } \cup
                      (IF parsed_data.buffer_diff # << >>
                       THEN { "analyze_stability(buffer_diff)" } ELSE {})
       ELSE /\ report' = report \o << Line("BUFFER_INSUFFICIENT"), Line("END") >>
            /\ UNCHANGED << correction_stats, ran >>
    /\ pc' = "done"
    /\ UNCHANGED direct_vars
    /\ UNCHANGED << service_name, cycle_time_us, ctor_cycle, num_lines, config,
                    journal, logs, parsed_data, cycle_stats >>

Next ==
    \/ \E n \in NumLinesChoices : Call(n)
    \/ Resolve
    \/ Retrieve
    \/ Parse
    \/ Infer
    \/ Jitter
    \/ Buffer

Spec == Init /\ [][Next]_vars

\* a run that was started is carried on to its end
\* a stage of a run that was started
Step == Resolve \/ Retrieve \/ Parse \/ Infer \/ Jitter \/ Buffer

\* the method is synchronous: a run that was started is carried on
FairSpec == Spec /\ WF_vars(Step)

(***************************************************************************)
(* DirettaMonitor.parse_diretta_logs called on its own.                    *)
(***************************************************************************)
\* the longest text handed to the extractor
MaxTextLines == 3

\* a sample line whose field j is not a number,
\* e.g. "info rcv 2 -0.0110 -0.0110 abc cy=1920000000"
NonNumericLine(s, j) == [SampleLine(s) EXCEPT ![j] = Tok("junk", 0)]

\* a sample line whose last field goes on after its digits,
\* e.g. "info rcv 2 -0.0110 -0.0110 0.0016 cy=1920x000000": the digits in
\* front of the x are worth v picoseconds
TrailingCyLine(s, v) == [SampleLine(s) EXCEPT ![7] = Tok("cyx", v)]

\* a sample written over two lines: "info rcv 2 <diff>" and
\* "<avg> <corr> cy=<cy_ps>"
HeadLine(s) == SubSeq(SampleLine(s), 1, 4)
TailLine(s) == SubSeq(SampleLine(s), 5, 7)

ParserLines ==
    { SampleLine(SampleKinds[2]), SampleLine(SampleKinds[3]),
      NonNumericLine(SampleKinds[4], 6), NonNumericLine(SampleKinds[4], 7),
      TrailingCyLine(SampleKinds[5], 1935000000),
      HeadLine(SampleKinds[6]), TailLine(SampleKinds[6]),
      JunkLine }

ParserTexts ==
    UNION { [1..n -> ParserLines] : n \in 0..MaxTextLines }

\* DirettaMonitor() with its default arguments, before any run
MonitorAtRest ==
    /\ service_name = "diretta_sync_host"
    /\ cycle_time_us = NoneVal
    /\ ctor_cycle = NoneVal
    /\ pc = "idle"
    /\ num_lines = 0
    /\ config = NoneVal
    /\ journal = [ok |-> FALSE, text |-> << >>]
    /\ logs = << >>
    /\ parsed_data = EmptyParsed
    /\ cycle_stats = NoStats
    /\ correction_stats = NoStats
    /\ ran = {}
    /\ report = << >>

\* no calculator has been built
NoCalculator ==
    /\ mtu = 0
    /\ overhead = 0
    /\ available_payload = 0

\* the text the extractor is about to be called with
ParserInit ==
    /\ MonitorAtRest
    /\ NoCalculator
    /\ call \in { [op |-> "parse_diretta_logs", logs |-> text] :
                     text \in ParserTexts }
    /\ result = NoCall

\* monitor.parse_diretta_logs(logs)
ParseLogs ==
    /\ call.op = "parse_diretta_logs"
    /\ result = NoCall
    /\ result' = parse_diretta_logs(call.logs)
    /\ UNCHANGED << service_name, cycle_time_us, ctor_cycle, pc, num_lines,
                    config, journal, logs, parsed_data, cycle_stats,
                    correction_stats, ran, report, mtu, overhead,
                    available_payload, call >>

ParserNext == ParseLogs

ParserSpec == ParserInit /\ [][ParserNext]_vars

(***************************************************************************)
(* DirettaMonitor.analyze_stability called on its own.                     *)
(***************************************************************************)
\* the longest list handed to the statistics
MaxValues == 5

\* the numbers the lists are made of
ValueChoices == { -3, 0, 1, 5 }

StabilityInputs ==
    UNION { [1..n -> ValueChoices] : n \in 0..MaxValues }

\* the list the statistics are about to be called with
StabilityInit ==
    /\ MonitorAtRest
    /\ NoCalculator
    /\ call \in { [op |-> "analyze_stability", values |-> values] :
                     values \in StabilityInputs }
    /\ result = NoCall

\* monitor.analyze_stability(values, data_type)
AnalyzeStability ==
    /\ call.op = "analyze_stability"
    /\ result = NoCall
    /\ result' = analyze_stability(call.values)
    /\ UNCHANGED << service_name, cycle_time_us, ctor_cycle, pc, num_lines,
                    config, journal, logs, parsed_data, cycle_stats,
                    correction_stats, ran, report, mtu, overhead,
                    available_payload, call >>

StabilityNext == AnalyzeStability

StabilitySpec == StabilityInit /\ [][StabilityNext]_vars

(***************************************************************************)
(* DirettaCalculator.                                                      *)
(***************************************************************************)
\* "Ethernet frame overhead"
ETH_HEADER == 14
DIRETTA_HEADER == 2
VLAN_OVERHEAD == 4
FCS == 4

\* int(n / d), d > 0: Python's int() drops the fraction, towards zero
IntTrunc(n, d) == IF n >= 0 THEN n \div d ELSE -((-n) \div d)

\* "Bytes per sample (stereo)": 0.25 for DSD, 6 for PCM
BytesPerSample(is_dsd) == IF is_dsd THEN Frac(1, 4) ELSE Frac(6, 1)

\* audio_bytes_max = (int(self.available_payload / 8) * 8)
AudioBytesMax(payload) == IntTrunc(payload, 8) * 8

\* the division rounded away from zero
SamplesPerFrameUp(audio_bytes_max, bytes_per_sample) ==
    LET n == audio_bytes_max * bytes_per_sample.d
        t == IntTrunc(n, bytes_per_sample.n)
    IN  IF t * bytes_per_sample.n = n THEN t
        ELSE IF n > 0 THEN t + 1 ELSE t - 1

\* samples_per_frame = int(audio_bytes_max / bytes_per_sample)
SamplesPerFrame(audio_bytes_max, bytes_per_sample) ==
    IntTrunc(audio_bytes_max * bytes_per_sample.d, bytes_per_sample.n)

\* audio_bytes = int(samples_per_frame * bytes_per_sample)
AudioBytes(samples_per_frame, bytes_per_sample) ==
    IntTrunc(samples_per_frame * bytes_per_sample.n, bytes_per_sample.d)

\* the float a / b for integers a and b # 0, in lowest terms
Ratio(a, b) == IF b > 0 THEN Frac(a, b) ELSE Frac(-a, -b)

\* (samples_per_frame / sample_rate) * 1_000_000; the common factor of the
\* rate and 1_000_000 is taken out first to keep the products small
CycleTimeUs(samples_per_frame, sample_rate) ==
    LET g == Gcd(1000000, sample_rate)
    IN  Frac(samples_per_frame * (1000000 \div g), sample_rate \div g)

\* an exception leaves the call
Raise(exception) == [raised |-> exception]

Raised(r) == "raised" \in DOMAIN r

\* calculator.calculate_frame_params(sample_rate, is_dsd): the returned
\* dictionary, or ZeroDivisionError from sample_rate / samples_per_frame
calculate_frame_params(sample_rate, is_dsd) ==
    LET bytes_per_sample  == BytesPerSample(is_dsd)
        audio_bytes_max   == AudioBytesMax(available_payload)
        samples_per_frame == SamplesPerFrame(audio_bytes_max, bytes_per_sample)
        audio_bytes       == AudioBytes(samples_per_frame, bytes_per_sample)
        cycle             == CycleTimeUs(samples_per_frame, sample_rate)
    IN  IF samples_per_frame = 0
        THEN Raise("ZeroDivisionError")
        ELSE [sample_rate       |-> sample_rate,
              sample_rate_mhz   |-> Frac(sample_rate, 1000000),
              samples_per_frame |-> samples_per_frame,
              audio_bytes       |-> audio_bytes,
              total_frame_size  |-> ETH_HEADER + DIRETTA_HEADER + audio_bytes + FCS,
              cycle_time_us     |-> cycle,
              cycle_time_ms     |-> Frac(cycle.n, cycle.d * 1000),
              packet_rate_hz    |-> Ratio(sample_rate, samples_per_frame),
              bytes_per_sample  |-> bytes_per_sample,
              is_dsd            |-> is_dsd]

\* int(n / d): the fraction is dropped, no rounding
RoundToZero(n, d) == IntTrunc(n, d)

\* round(n / d), d > 0: the nearest integer, the even one of two equally near
RoundHalfEven(n, d) ==
    LET f == n \div d
        r == n - f * d
    IN  IF 2 * r < d THEN f
        ELSE IF 2 * r > d THEN f + 1
        ELSE IF f % 2 = 0 THEN f ELSE f + 1

\* calculator.calculate_cycle_time_for_48k(is_dsd): (cycle_time, params)
calculate_cycle_time_for_48k(is_dsd) ==
    LET base_rate   == 48000
        multiplier  == IF is_dsd THEN 256 ELSE 8
        sample_rate == base_rate * multiplier
        params      == calculate_frame_params(sample_rate, is_dsd)
    IN  IF Raised(params) THEN params
        ELSE [cycle_time |->
                  RoundHalfEven(params.cycle_time_us.n,
                                5 * params.cycle_time_us.d) * 5,
              params |-> params]

\* the largest of the small values of --mtu
MaxMtu == 220

\* --mtu: small values, and the MTU of common interfaces
MtuChoices == (1..MaxMtu) \cup { 1500, 9000, 9024 }

SampleRates == { 44100, 48000, 384000, 12288000 }

\* DirettaCalculator(mtu)
CalcInit ==
    /\ MonitorAtRest
    /\ mtu \in MtuChoices
    /\ overhead = ETH_HEADER + DIRETTA_HEADER + VLAN_OVERHEAD
    /\ available_payload = mtu - overhead
    /\ call = NoCall
    /\ result = NoCall

CalculateFrameParams(sample_rate, is_dsd) ==
    /\ call' = [op |-> "calculate_frame_params",
                sample_rate |-> sample_rate, is_dsd |-> is_dsd]
    /\ result' = calculate_frame_params(sample_rate, is_dsd)
    /\ UNCHANGED << service_name, cycle_time_us, ctor_cycle, pc, num_lines,
                    config, journal, logs, parsed_data, cycle_stats,
                    correction_stats, ran, report, mtu, overhead,
                    available_payload >>

CalculateCycleTimeFor48k(is_dsd) ==
    /\ call' = [op |-> "calculate_cycle_time_for_48k", is_dsd |-> is_dsd]
    /\ result' = calculate_cycle_time_for_48k(is_dsd)
    /\ UNCHANGED << service_name, cycle_time_us, ctor_cycle, pc, num_lines,
                    config, journal, logs, parsed_data, cycle_stats,
                    correction_stats, ran, report, mtu, overhead,
                    available_payload >>

CalcNext ==
    \/ \E sample_rate \in SampleRates : \E is_dsd \in BOOLEAN :
           CalculateFrameParams(sample_rate, is_dsd)
    \/ \E is_dsd \in BOOLEAN : CalculateCycleTimeFor48k(is_dsd)

CalcSpec == CalcInit /\ [][CalcNext]_vars

(***************************************************************************)
(* Vocabulary of the properties.                                           *)
(***************************************************************************)
\* the run got past the extractor
Extracted == "parse_diretta_logs" \in ran

\* the run has returned its report
Returned == pc = "done"

JitterSectionLines ==
    { "JITTER_SECTION", "JITTER_ASSESSMENT", "JITTER_STATISTICS", "JITTER_NO_DATA" }

BufferSectionLines ==
    { "BUFFER_SECTION", "BUFFER_ASSESSMENT", "BUFFER_STATISTICS",
      "BUFFER_INSUFFICIENT", "BUFFER_DIFFERENCE" }

HasAnyLine(tags) == \E i \in 1..Len(report) : report[i].tag \in tags

\* rank of a grade, the best one first
GradeRank(g) ==
    CASE g = "Exceptional" -> 1
      [] g = "Excellent"   -> 2
      [] g = "Very Good"   -> 3
      [] g = "Good"        -> 4
      [] g = "Fair"        -> 5
      [] g = "Poor"        -> 6

(***************************************************************************)
(* Properties.                                                             *)
(***************************************************************************)
\* is iqr_pct = iqr / cycle_time_us * 100 below t10 tenths of a percent, for
\* the statistics and the reference of the state (a positive reference)
IqrPctBelow(t10) ==
    10 * cycle_stats.iqr * cycle_time_us.d < t10 * cycle_time_us.n

\* C1: whenever the report grades the network timing jitter, the grade is the
\* band iqr_pct falls in (<0.1 Exceptional, <0.5 Excellent, <1.0 Very Good,
\* <2.0 Good, <5.0 Fair, else Poor); other values of the standard deviation
\* and of the range give the same grade, and a smaller IQR gives no worse one.
C1_JitterGradeIsIqrBand ==
    HasLine("JITTER_ASSESSMENT") =>
        LET g == GradeOf("JITTER_ASSESSMENT") IN
        /\ cycle_time_us.n > 0
        /\ (g = "Exceptional") <=> IqrPctBelow(1)
        /\ (g = "Excellent") <=> (~IqrPctBelow(1) /\ IqrPctBelow(5))
        /\ (g = "Very Good") <=> (~IqrPctBelow(5) /\ IqrPctBelow(10))
        /\ (g = "Good") <=> (~IqrPctBelow(10) /\ IqrPctBelow(20))
        /\ (g = "Fair") <=> (~IqrPctBelow(20) /\ IqrPctBelow(50))
        /\ (g = "Poor") <=> ~IqrPctBelow(50)
        /\ \A v \in { 0, cycle_stats.var2 + 1 }, r \in { 0, cycle_stats.range + 100 } :
              JitterGrade([cycle_stats EXCEPT !.var2 = v, !.range = r],
                          cycle_time_us) = g
        /\ \A x \in { 0, cycle_stats.iqr \div 2, cycle_stats.iqr } :
              GradeRank(JitterGrade([cycle_stats EXCEPT !.iqr = x], cycle_time_us))
                 <= GradeRank(g)

\* a returned report that grades the jitter Fair on an IQR smaller than the range
C1_Witness ==
    /\ Returned
    /\ HasLine("JITTER_ASSESSMENT")
    /\ GradeOf("JITTER_ASSESSMENT") = "Fair"
    /\ 100 * cycle_stats.range > cycle_stats.iqr

\* C2: a metric with fewer samples than its minimum (2 cycle times, 10
\* corrections) is reported as insufficient or absent and gets no grade.
C2_NoGradeBelowMinimum ==
    (Returned /\ Extracted) =>
        /\ Len(parsed_data.cycle_times) < 2 =>
              /\ ~HasLine("JITTER_ASSESSMENT")
              /\ HasLine("JITTER_NO_DATA")
        /\ Len(parsed_data.correction) < 10 =>
              /\ ~HasLine("BUFFER_ASSESSMENT")
              /\ HasLine("BUFFER_INSUFFICIENT")

\* C3: a text that is not empty and in which nothing matched ends the report
\* with the could-not-parse line, with no jitter and no buffer section.
C3_UnparseableEndsReport ==
    (Returned /\ Extracted /\ logs # << >> /\ parsed_data.cycle_times = << >>) =>
        /\ LastLine.tag = "COULD_NOT_PARSE"
        /\ ~HasAnyLine(JitterSectionLines)
        /\ ~HasAnyLine(BufferSectionLines)

\* C4: once retrieval has given no text (empty output or a failed command) the
\* run is over: the report ends with the no-logs line, the extractor, the
\* statistics and the classifier have not run, and there is no jitter and no
\* buffer section.
C4_NoLogsEndsReport ==
    ("journalctl" \in ran /\ logs = << >>) =>
        /\ Returned
        /\ LastLine.tag = "NO_LOGS"
        /\ ran \subseteq { "_detect_cycle_time", "journalctl" }
        /\ parsed_data = EmptyParsed
        /\ ~HasAnyLine(JitterSectionLines)
        /\ ~HasAnyLine(BufferSectionLines)

\* a run that returned after journalctl printed nothing
C4_Witness ==
    /\ Returned
    /\ journal.ok
    /\ journal.text = << >>
    /\ LastLine.tag = "NO_LOGS"

\* C5: the reference cycle time a run analyses with is the explicit value if
\* one was given to the constructor, else the value of the configuration
\* file if it has one, else the mean of the extracted cycle times; it is
\* inferred only after the extractor produced cycle times.
C5_ResolutionOrder ==
    /\ HasLine("DETECTED_FROM_LOG_DATA") =>
          (Extracted /\ parsed_data.cycle_times # << >>)
    /\ (Extracted /\ pc \in { "jitter", "buffer", "done" }) =>
          /\ ~IsNone(ctor_cycle) => cycle_time_us = ctor_cycle
          /\ (IsNone(ctor_cycle) /\ ~IsNone(config)) => cycle_time_us = config
          /\ (IsNone(ctor_cycle) /\ IsNone(config)
                /\ parsed_data.cycle_times # << >>) =>
                cycle_time_us = MeanOf(parsed_data.cycle_times)
          /\ HasLine("DETECTED_FROM_LOG_DATA") =>
                (IsNone(ctor_cycle) /\ IsNone(config))

\* C6: a run leaves the stored reference cycle time of the monitor as the
\* constructor set it, so that the next run does not see what this one
\* resolved or inferred.
C6_RunLeavesMonitorAsConstructed ==
    Returned => cycle_time_us = ctor_cycle

\* the rows of the buffer-correction table: IQR bound and |mean| bound in
\* units of 0.0001, 0 for no bound
BufferTable ==
    << [iqr |-> 10,  mean |-> 50,  grade |-> "Exceptional"],
       [iqr |-> 50,  mean |-> 100, grade |-> "Excellent"],
       [iqr |-> 100, mean |-> 200, grade |-> "Good"],
       [iqr |-> 200, mean |-> 0,   grade |-> "Fair"],
       [iqr |-> 0,   mean |-> 0,   grade |-> "Poor"] >>

RowMatches(row) ==
    /\ row.iqr = 0 \/ correction_stats.iqr < 100 * row.iqr
    /\ row.mean = 0 \/ Abs(correction_stats.sum) < row.mean * correction_stats.den

FirstMatchingRow ==
    BufferTable[CHOOSE i \in 1..Len(BufferTable) :
                   /\ RowMatches(BufferTable[i])
                   /\ \A j \in 1..(i - 1) : ~RowMatches(BufferTable[j])]

C8_BufferGradeAgreesWithGuide ==
    HasLine("BUFFER_ASSESSMENT") =>
        GradeOf("BUFFER_ASSESSMENT") = GuideBufferGrade(correction_stats)

\* C9: in a run that extracted cycle times the jitter section has its grade
\* and statistics and the correction section is graded or marked insufficient;
\* in every analysis each section is graded or explicitly marked as missing.
C9_SectionsAreLocal ==
    (Returned /\ Extracted) =>
        /\ parsed_data.cycle_times # << >> =>
              /\ HasLine("JITTER_ASSESSMENT")
              /\ HasLine("JITTER_STATISTICS")
        /\ HasLine("JITTER_ASSESSMENT") \/ HasLine("JITTER_NO_DATA")
        /\ HasLine("BUFFER_ASSESSMENT") \/ HasLine("BUFFER_INSUFFICIENT")

\* C10: no run raises, and every run that was started returns a report.
C10_EveryRunReturnsReport ==
    /\ [](pc # "raised")
    /\ (pc = "resolve") ~> (Returned /\ report # << >>)

\* a run that returned its report with a zero reference cycle time
C10_Witness ==
    /\ Returned
    /\ HasLine("END")
    /\ parsed_data.cycle_times # << >>
    /\ ~IsNone(cycle_time_us)
    /\ cycle_time_us.n = 0

(***************************************************************************)
(* Properties of the extractor.                                            *)
(***************************************************************************)
\* the grammar of a sample line, field by field
SampleGrammar == << "info", "rcv", "int", "dec", "dec", "dec", "cy" >>

\* the line is a sample line, all of its fields well formed
WellFormedLine(line) ==
    /\ Len(line) = Len(SampleGrammar)
    /\ \A j \in 1..Len(SampleGrammar) : line[j].k = SampleGrammar[j]

\* the line carries the marker
MarkedLine(line) == line # << >> /\ line[1].k = "info"

\* the samples written on the well-formed lines ls, in order
SamplesOfLines(ls) ==
    [buffer_diff |-> [i \in 1..Len(ls) |-> ls[i][4].v],
     buffer_avg  |-> [i \in 1..Len(ls) |-> ls[i][5].v],
     correction  |-> [i \in 1..Len(ls) |-> ls[i][6].v],
     cycle_times |-> [i \in 1..Len(ls) |-> ls[i][7].v \div 1000000]]

\* the extractor was called and has returned
ParserReturned == call.op = "parse_diretta_logs" /\ result # NoCall

\* C11: a line that carries the marker but has a non-numeric or otherwise
\* malformed value in one of its four captured fields is skipped, so a text
\* of k well-formed lines among malformed and unrelated lines yields exactly
\* the k samples of the well-formed lines, in order.
C11_OnlyWellFormedLinesYieldSamples ==
    ParserReturned =>
        result = SamplesOfLines(SelectSeq(call.logs, WellFormedLine))

\* the positions of the token stream at which an entry matches; a match
\* begins with the marker and holds no other, so no two of them overlap
MatchStarts(toks) == { i \in 1..Len(toks) : MatchAt(toks, i) }

\* the i-th of these positions in text order
NthStart(toks, i) ==
    CHOOSE p \in MatchStarts(toks) :
        Cardinality({ q \in MatchStarts(toks) : q < p }) = i - 1

\* C12: after parse_diretta_logs on any text the four sequences have the same
\* length, the number of matched entries; all are empty when nothing matched;
\* and element i of each sequence is the field of the i-th matched entry in
\* text order, so no conversion leaves the sequences with different lengths.
C12_SequencesAlignedWithMatches ==
    ParserReturned =>
        LET toks == Flatten(call.logs)
            n    == Cardinality(MatchStarts(toks))
        IN  /\ Len(result.buffer_diff) = n
            /\ Len(result.buffer_avg) = n
            /\ Len(result.correction) = n
            /\ Len(result.cycle_times) = n
            /\ (n = 0 => result = EmptyParsed)
            /\ \A i \in 1..n :
                   /\ result.buffer_diff[i] = toks[NthStart(toks, i) + 3].v
                   /\ result.buffer_avg[i] = toks[NthStart(toks, i) + 4].v
                   /\ result.correction[i] = toks[NthStart(toks, i) + 5].v
                   /\ result.cycle_times[i] =
                          toks[NthStart(toks, i) + 6].v \div 1000000

\* two different samples were extracted from a text that also holds a line
\* that is not a sample
C12_Witness ==
    /\ ParserReturned
    /\ Len(result.cycle_times) = 2
    /\ result.buffer_diff[1] # result.buffer_diff[2]
    /\ \E l \in 1..Len(call.logs) : ~WellFormedLine(call.logs[l])

\* the number of tokens on the first l lines of the text
RECURSIVE TokensUpTo(_, _)
TokensUpTo(text, l) ==
    IF l = 0 THEN 0 ELSE Len(text[l]) + TokensUpTo(text, l - 1)

\* the line of the text on which token p of its token stream is written
LineOfToken(text, p) ==
    CHOOSE l \in 1..Len(text) :
        TokensUpTo(text, l - 1) < p /\ p <= TokensUpTo(text, l)

\* C13: every extracted sample comes from a single log line: the marker, the
\* tag, the three decimals and the cy= integer of a sample all lie on the
\* same line, and no sample is put together from two or more lines.
C13_SampleFromOneLine ==
    ParserReturned =>
        /\ Len(result.cycle_times) =
               Cardinality(MatchStarts(Flatten(call.logs)))
        /\ \A p \in MatchStarts(Flatten(call.logs)) :
               \A j \in 1..6 :
                   LineOfToken(call.logs, p + j) = LineOfToken(call.logs, p)

(***************************************************************************)
(* Properties of the statistics.                                           *)
(***************************************************************************)
\* the statistics were called and have returned
StabilityReturned == call.op = "analyze_stability" /\ result # NoCall

\* C14: for a list of length 0 or 1 analyze_stability returns, with count the
\* length of the list and mean, stdev, min, max, range, q1, q3 and iqr all
\* zero, whatever the value in the list.
C14_ShortListGivesSentinel ==
    (StabilityReturned /\ Len(call.values) < 2) =>
        /\ DOMAIN result = { "count", "sum", "den", "var2", "min", "max",
                             "range", "q1", "q3", "iqr" }
        /\ result.count = Len(call.values)
        /\ result.sum = 0 /\ result.den # 0
        /\ result.var2 = 0
        /\ result.min = 0 /\ result.max = 0 /\ result.range = 0
        /\ result.q1 = 0 /\ result.q3 = 0 /\ result.iqr = 0

\* the statistics of a list of one value that is not zero
C14_Witness ==
    /\ StabilityReturned
    /\ Len(call.values) = 1
    /\ call.values[1] # 0
    /\ result.count = 1

\* x100 is 100 times the q-th percentile of the sorted list s, interpolated
\* linearly between the two order statistics around position (n - 1) * q / 100
InterpolatedAt(s, q, x100) ==
    \E lo \in 1..Len(s) : \E r \in 0..99 :
        /\ (Len(s) - 1) * q = 100 * (lo - 1) + r
        /\ x100 = (100 - r) * s[lo] + r * s[IF r = 0 THEN lo ELSE lo + 1]

FrameReturned == call.op = "calculate_frame_params" /\ ~Raised(result)

\* C16: for every mtu, sample rate and mode, the audio_bytes that
\* calculate_frame_params returns is at most mtu - 20, the MTU less the fixed
\* overhead 14 + 2 + 4: it is obtained by rounding down and never exceeds the
\* payload budget, in DSD as in PCM mode.
C16_AudioBytesWithinBudget ==
    FrameReturned =>
        /\ result.audio_bytes <= mtu - (14 + 2 + 4)
        /\ result.audio_bytes * result.bytes_per_sample.d <=
               result.samples_per_frame * result.bytes_per_sample.n

TowardZero(x, k) ==
    CHOOSE m \in { IF x >= 0 THEN x - j ELSE x + j : j \in 0..(k - 1) } :
        m % k = 0

C18_NoErrorOnPositiveInputs ==
    (call.op = "calculate_frame_params" /\ mtu > 0 /\ call.sample_rate > 0) =>
        /\ ~Raised(result)
        /\ result.samples_per_frame > 0
        /\ result.cycle_time_us.n > 0
        /\ result.packet_rate_hz.n > 0

\* calculate_cycle_time_for_48k was called and has returned
CycleTimeReturned == call.op = "calculate_cycle_time_for_48k" /\ ~Raised(result)

\* C19: the cycle time calculate_cycle_time_for_48k returns is a multiple of
\* 5 microseconds and differs by at most 2.5 microseconds from the unrounded
\* cycle time of the frame at 48000 * 256 Hz (DSD) or 48000 * 8 Hz (PCM), so
\* it is the multiple of 5 nearest to it.
C19_CycleTimeNearestMultipleOf5 ==
    CycleTimeReturned =>
        LET x    == result.params.cycle_time_us
            rate == 48000 * (IF call.is_dsd THEN 256 ELSE 8)
        IN  /\ result.cycle_time % 5 = 0
            /\ 2 * Abs(result.cycle_time * x.d - x.n) <= 5 * x.d
            /\ result.params.sample_rate = rate
            /\ x.n * (rate \div 8000) =
                   result.params.samples_per_frame * 125 * x.d

\* a cycle time that had to be rounded, for the default MTU
C19_Witness ==
    /\ CycleTimeReturned
    /\ mtu = 9024
    /\ call.is_dsd
    /\ result.cycle_time = 2930
    /\ result.params.cycle_time_us = Frac(46875, 16)

====
